---- MODULE Spec2Model ----
(***************************************************************************)
(* Control logic of the gputopia worker (src/ai_worker/main.py):           *)
(* WorkerMain.run / run_ws / run_one / load_model and the cached           *)
(* connect_info descriptor.  One cooperative task owns the websocket; its  *)
(* position is pc.  The coordinator, the transport, the model download,    *)
(* the GGUF reader and the llama backend are external: each of their       *)
(* outcomes is a nondeterministic choice.                                  *)
(* The self-test mode (conf.test_model set, run() lines 99-101) bypasses   *)
(* the connection loop and is not part of this model.                      *)
(***************************************************************************)
EXTENDS Integers, Sequences, FiniteSets, TLC

\* ------------------------------------------------------------------ bounds
MaxJobs  == 3       \* job messages the coordinator sends in one run
MaxConns == 3       \* connections websockets.connect yields in one run
MaxFrags == 2       \* SSE events the backend emits for one job

\* ------------------------------------------------------------- value sets
None   == "None"
Models == {"m1", "m2"}

\* What Req.model_validate_json makes of an inbound message: a Req whose
\* openai_req may or may not carry "model" and "stream", or a ValidationError.
Requests ==
    {[valid |-> TRUE, model |-> m, stream |-> s] :
        m \in Models \cup {None}, s \in BOOLEAN}
    \cup {[valid |-> FALSE, model |-> None, stream |-> FALSE]}

\* -------------------------------------------- descriptor and estimator
MaxGpus   == 2      \* devices the nvidia query lists
MaxLayers == 3      \* layer counts 1..MaxLayers of a model file (and 32)

Unset   == -1       \* an Optional numeric field holding None
MemUnit == 1000000  \* line 127: gpu.memory * 1000000

\* fb_memory_usage.total of one device as the query reports it, or missing
MemValues == {Unset, 1, 4}

GpuLists == UNION {[1..n -> MemValues] : n \in 0..MaxGpus}

\* The step of lines 155-166 at which the nvidia query raises, if any.
QuerySteps == {"getInstance", "DeviceQuery", "count", "driver_version",
               "gpus", "none"}

\* What the host answers to one run of _get_connect_info.
Queries == [fail : QuerySteps, gpus : GpuLists]

\* _get_connect_info, lines 147-171: the host fields are set first; inside
\* the try block nv_gpu_count, nv_driver_version and nv_gpus are assigned one
\* after the other, and an exception at any step is swallowed.
get_connect_info(q) ==
    LET base == [cpu_count |-> 4, vram |-> 16,
                 nv_gpu_count |-> Unset, nv_driver_version |-> None,
                 nv_gpus |-> <<>>]
        with_count  == [base EXCEPT !.nv_gpu_count = Len(q.gpus)]
        with_driver == [with_count EXCEPT !.nv_driver_version = "535"]
    IN  CASE q.fail \in {"getInstance", "DeviceQuery", "count"} -> base
          [] q.fail = "driver_version" -> with_count
          [] q.fail = "gpus"           -> with_driver
          [] OTHER -> [with_driver EXCEPT !.nv_gpus = q.gpus]

\* ConnectMessage values of the serving model: the nvidia query failed at
\* once, or it reported one device.
Hardware ==
    {get_connect_info(q) :
        q \in {[fail |-> "getInstance", gpus |-> <<>>],
               [fail |-> "none", gpus |-> <<4>>]}}

\* What GGUFReader makes of a model file: layers() and vram_estimate(), or an
\* exception for a malformed file.
Files ==
    {[wellformed |-> TRUE, layers |-> l, est_ram |-> e] :
        l \in (1..MaxLayers) \cup {32},
        e \in {0, 500000, 1000000, 1500000, 3000000, 16000000}}
    \cup {[wellformed |-> FALSE, layers |-> 1, est_ram |-> 0]}

RECURSIVE SumMem(_)
SumMem(gpus) ==
    IF gpus = <<>> THEN 0 ELSE gpus[1] + SumMem(Tail(gpus))

\* TotalMem with the device memory taken as bytes.
TotalMem_bytes(gpus) == SumMem(gpus)

\* lines 124-127: tot_mem, for devices that all report their memory
TotalMem(gpus) == MemUnit * SumMem(gpus)

\* Estimate with the comparison of line 129 reversed (for a model that
\* needs some memory).
Estimate_flipped(layers, est_ram, tot_mem) ==
    IF 0 < est_ram /\ est_ram < tot_mem
       THEN (tot_mem * layers) \div est_ram
       ELSE layers

\* lines 129-132: tot_mem // (est_ram/layers), in exact arithmetic
Estimate(layers, est_ram, tot_mem) ==
    IF est_ram > tot_mem
       THEN (tot_mem * layers) \div est_ram
       ELSE layers

Result(v, ex, o, c) == [value |-> v, raised |-> ex, opened |-> o, consulted |-> c]

\* guess_layers_of testing force_layers only after the file was read.
guess_layers_of_late(force, file, info) ==
    IF ~file.wellformed THEN Result(0, "reader", TRUE, FALSE)
    ELSE IF force # 0 THEN Result(force, "none", TRUE, FALSE)
    ELSE IF \E i \in DOMAIN info.nv_gpus : info.nv_gpus[i] = Unset
        THEN Result(0, "TypeError", TRUE, TRUE)
    ELSE Result(Estimate(file.layers, file.est_ram, TotalMem(info.nv_gpus)),
                "none", TRUE, TRUE)

\* guess_layers, lines 113-136: the value returned or the exception raised,
\* whether the model file was opened and whether connect_info() was called.
\* None * 1000000 at line 127 raises TypeError.
guess_layers_of(force, file, info) ==
    IF force # 0 THEN Result(force, "none", FALSE, FALSE)
    ELSE IF ~file.wellformed THEN Result(0, "reader", TRUE, FALSE)
    ELSE IF \E i \in DOMAIN info.nv_gpus : info.nv_gpus[i] = Unset
        THEN Result(0, "TypeError", TRUE, TRUE)
    ELSE Result(Estimate(file.layers, file.est_ram, TotalMem(info.nv_gpus)),
                "none", TRUE, TRUE)

\* est before a run: the inputs, no descriptor, no result
EstInput(force, file, q, gpus2) ==
    [stage |-> "query", force |-> force, file |-> file, q |-> q,
     q2 |-> [fail |-> "none", gpus |-> gpus2],
     info |-> <<>>, info2 |-> <<>>, r |-> <<>>, r2 |-> <<>>]

\* est in the serving model, where it is not used
EstIdle ==
    [EstInput(0, [wellformed |-> FALSE, layers |-> 1, est_ram |-> 0],
              [fail |-> "getInstance", gpus |-> <<>>], <<>>)
        EXCEPT !.stage = "idle"]

VARIABLES
    pc,            \* position of the task running WorkerMain.run
    conf_once,     \* Config.once
    stopped,       \* self.stopped
    llama,         \* self.llama: model the app was created for, or None
    llama_model,   \* self.llama_model
    llama_cli,     \* self.llama_cli: model of the app the client wraps, or None
    connect_info,  \* self.__connect_info: <<>> (unset) or <<ConnectMessage>>
    conn,          \* number of connections opened so far (id of the current one)
    connOpen,      \* the transport of the current connection is open
    nsent,         \* number of messages written on the current connection
    sent,          \* the messages written since the connection was opened or,
                   \* later, since ws.recv last returned; each carries its
                   \* position on the connection
    njobs,         \* number of messages ws.recv has returned
    job,           \* the message ws.recv returned last and what became of it
    last_load,     \* the load_model call that ended last
    pre,           \* the slot as it was when the current load_model call began
    est            \* one run of _get_connect_info and guess_layers on given
                   \* inputs (used by SpecEst only)

vars == <<pc, conf_once, stopped, llama, llama_model, llama_cli, connect_info,
          conn, connOpen, nsent, sent, njobs, job, last_load, pre, est>>

slot == <<llama, llama_model, llama_cli>>

Msg(j, k, d) == [seq |-> nsent + 1, job |-> j, kind |-> k, data |-> d]

NewJob(r) ==
    [conn |-> conn, model |-> r.model, stream |-> r.stream, valid |-> r.valid,
     status |-> "running", fail |-> "none", frags |-> 0,
     acquired |-> FALSE, built |-> FALSE, backend |-> None]

NoJob == [NewJob([valid |-> FALSE, model |-> None, stream |-> FALSE])
            EXCEPT !.status = "none", !.conn = 0]

Init ==
    /\ pc = "connect"
    /\ conf_once \in BOOLEAN
    /\ stopped = FALSE
    /\ llama = None
    /\ llama_model = None
    /\ llama_cli = None
    /\ connect_info = <<>>
    /\ conn = 0
    /\ connOpen = FALSE
    /\ nsent = 0
    /\ sent = <<>>
    /\ njobs = 0
    /\ job = NoJob
    /\ last_load = [called |-> FALSE, name |-> None, ok |-> FALSE]
    /\ pre = <<None, None, None>>
    /\ est = EstIdle

\* ------------------------------------------------------------ environment
\* The remote side or the network closes the current connection.
ConnectionLost ==
    /\ connOpen
    /\ pc \notin {"connect", "done"}
    /\ connOpen' = FALSE
    /\ UNCHANGED <<pc, conf_once, stopped, llama, llama_model, llama_cli,
                   connect_info, conn, nsent, sent, njobs, job, last_load, pre>>
    /\ UNCHANGED est

\* Something outside the serving task sets the stop flag while the task is
\* suspended.  Lines 104 and 183 run without a suspension point in between,
\* so the flag cannot change between the check and the handshake write.
ExternalStop ==
    /\ ~stopped
    /\ pc \notin {"hello", "done"}
    /\ stopped' = TRUE
    /\ UNCHANGED <<pc, conf_once, llama, llama_model, llama_cli, connect_info,
                   conn, connOpen, nsent, sent, njobs, job, last_load, pre>>
    /\ UNCHANGED est

\* ------------------------------------------------------------------- run
\* async for websocket in websockets.connect(...): the previous connection is
\* released, a new one is opened, then "if self.stopped: break".
run_connect ==
    /\ pc = "connect"
    /\ conn < MaxConns
    /\ conn' = conn + 1
    /\ connOpen' = TRUE
    /\ nsent' = 0
    /\ sent' = <<>>
    /\ pc' = IF stopped THEN "done" ELSE "hello"
    /\ UNCHANGED <<conf_once, stopped, llama, llama_model, llama_cli,
                   connect_info, njobs, job, last_load, pre>>
    /\ UNCHANGED est

\* connect_info_of querying the hardware on every call.
connect_info_of_requery(info, hw) == <<hw>>

\* connect_info(): build the descriptor on first use, then reuse it.
connect_info_of(info, hw) == IF info = <<>> THEN <<hw>> ELSE info

\* AfterRunOne with the run-once test left out.
AfterRunOne_no_once ==
    IF stopped THEN "done" ELSE "recv"

\* Where run_ws goes once run_one has returned: the run-once pause, or the
\* "while not self.stopped" test (on exit run() breaks at line 110).
AfterRunOne ==
    IF conf_once THEN "sleep" ELSE IF stopped THEN "done" ELSE "recv"

\* ws.send(m) on an open connection
Send(m) ==
    /\ sent' = Append(sent, m)
    /\ nsent' = nsent + 1

\* run_ws_send_connect without the handshake write.
run_ws_send_connect_skip ==
    /\ pc = "hello"
    /\ pc' = IF stopped THEN "done" ELSE "recv"
    /\ UNCHANGED <<conf_once, stopped, llama, llama_model, llama_cli,
                   connect_info, conn, connOpen, nsent, sent, njobs, job,
                   last_load, pre>>
    /\ UNCHANGED est

\* run_ws line 183: await ws.send(self.connect_message()).  A closed
\* connection raises ConnectionClosed, which run() answers with "continue".
run_ws_send_connect ==
    /\ pc = "hello"
    /\ \E hw \in Hardware :
        LET info == connect_info_of(connect_info, hw) IN
        /\ connect_info' = info
        /\ IF connOpen
              THEN /\ Send(Msg(0, "connect", info[1]))
                   /\ pc' = IF stopped THEN "done" ELSE "recv"
              ELSE /\ UNCHANGED <<sent, nsent>>
                   /\ pc' = "connect"
    /\ UNCHANGED <<conf_once, stopped, llama, llama_model, llama_cli,
                   conn, connOpen, njobs, job, last_load, pre>>
    /\ UNCHANGED est

\* run_ws lines 187-189: asyncio.sleep(1), then self.stopped = True; the
\* while test fails, run_ws returns and run() breaks.
run_ws_once ==
    /\ pc = "sleep"
    /\ stopped' = TRUE
    /\ pc' = "done"
    /\ UNCHANGED <<conf_once, llama, llama_model, llama_cli, connect_info,
                   conn, connOpen, nsent, sent, njobs, job, last_load, pre>>
    /\ UNCHANGED est

\* --------------------------------------------------------------- run_one
\* run_one_recv where a closed connection ends run() instead of reconnecting.
run_one_recv_exit ==
    /\ pc = "recv"
    /\ IF connOpen
          THEN /\ njobs < MaxJobs
               /\ njobs' = njobs + 1
               /\ \E r \in Requests : job' = NewJob(r)
               /\ sent' = <<>>
               /\ pc' = "parse"
          ELSE /\ UNCHANGED <<njobs, job, sent>>
               /\ pc' = "done"
    /\ UNCHANGED <<conf_once, stopped, llama, llama_model, llama_cli,
                   connect_info, conn, connOpen, nsent, last_load, pre>>
    /\ UNCHANGED est

\* line 192: req_str = await ws.recv(), outside the try block.
run_one_recv ==
    /\ pc = "recv"
    /\ IF connOpen
          THEN /\ njobs < MaxJobs
               /\ njobs' = njobs + 1
               /\ \E r \in Requests : job' = NewJob(r)
               /\ sent' = <<>>
               /\ pc' = "parse"
          ELSE /\ UNCHANGED <<njobs, job, sent>>
               /\ pc' = "connect"
    /\ UNCHANGED <<conf_once, stopped, llama, llama_model, llama_cli,
                   connect_info, conn, connOpen, nsent, last_load, pre>>
    /\ UNCHANGED est

\* The load_model call of the current job ends, normally or not.
LoadEnds(ok) == [called |-> TRUE, name |-> job.model, ok |-> ok]

\* run_one_validate taking a message that failed validation for a request
\* without a model.
run_one_validate_lenient ==
    /\ pc = "parse"
    /\ pre' = slot
    /\ IF job.model = llama_model
          THEN /\ job' = job
               /\ last_load' = LoadEnds(TRUE)
               /\ pc' = IF job.stream THEN "stream" ELSE "post"
          ELSE /\ job' = job
               /\ last_load' = last_load
               /\ pc' = "get_model"
    /\ UNCHANGED <<conf_once, stopped, llama, llama_model, llama_cli,
                   connect_info, conn, connOpen, nsent, sent, njobs>>
    /\ UNCHANGED est

\* lines 194-197 up to load_model's first test (lines 139-140).
run_one_validate ==
    /\ pc = "parse"
    /\ pre' = slot
    /\ IF ~job.valid
          THEN /\ job' = [job EXCEPT !.fail = "parse"]
               /\ last_load' = last_load
               /\ pc' = "except"
          ELSE IF job.model = llama_model
          THEN /\ job' = job
               /\ last_load' = LoadEnds(TRUE)
               /\ pc' = IF job.stream THEN "stream" ELSE "post"
          ELSE /\ job' = job
               /\ last_load' = last_load
               /\ pc' = "get_model"
    /\ UNCHANGED <<conf_once, stopped, llama, llama_model, llama_cli,
                   connect_info, conn, connOpen, nsent, sent, njobs>>
    /\ UNCHANGED est

\* line 141: model_path = await self.get_model(name); the download may fail.
get_model ==
    /\ pc = "get_model"
    /\ \E ok \in BOOLEAN :
        IF ok
           THEN /\ job' = [job EXCEPT !.acquired = TRUE]
                /\ last_load' = last_load
                /\ pc' = "guess_layers"
           ELSE /\ job' = [job EXCEPT !.acquired = TRUE, !.fail = "load"]
                /\ last_load' = LoadEnds(FALSE)
                /\ pc' = "except"
    /\ UNCHANGED <<conf_once, stopped, llama, llama_model, llama_cli,
                   connect_info, conn, connOpen, nsent, sent, njobs, pre>>
    /\ UNCHANGED est

\* lines 113-136 with force_layers = 0: GGUFReader may reject the file
\* (lines 117-120); otherwise the descriptor is read through connect_info()
\* (line 122) and the arithmetic of lines 126-130 may still raise.
guess_layers ==
    /\ pc = "guess_layers"
    /\ \E out \in {"reader_fails", "estimate_fails", "ok"} :
        /\ IF out = "reader_fails"
              THEN connect_info' = connect_info
              ELSE \E hw \in Hardware :
                      connect_info' = connect_info_of(connect_info, hw)
        /\ IF out = "ok"
              THEN /\ job' = job
                   /\ last_load' = last_load
                   /\ pc' = "create"
              ELSE /\ job' = [job EXCEPT !.fail = "load"]
                   /\ last_load' = LoadEnds(FALSE)
                   /\ pc' = "except"
    /\ UNCHANGED <<conf_once, stopped, llama, llama_model, llama_cli,
                   conn, connOpen, nsent, sent, njobs, pre>>
    /\ UNCHANGED est

\* lines 142-145: LlamaSettings and create_llama_app may fail; then self.llama
\* is assigned; AsyncClient may fail; then self.llama_cli is assigned.
\* self.llama_model is not assigned.
create_llama_app ==
    /\ pc = "create"
    /\ \E out \in {"app_fails", "client_fails", "ok"} :
        /\ llama' = IF out = "app_fails" THEN llama ELSE job.model
        /\ llama_cli' = IF out = "ok" THEN job.model ELSE llama_cli
        /\ job' = [job EXCEPT !.built = (out # "app_fails"),
                              !.fail = IF out = "ok" THEN "none" ELSE "load"]
        /\ last_load' = LoadEnds(out = "ok")
        /\ pc' = IF out = "ok"
                    THEN IF job.stream THEN "stream" ELSE "post"
                    ELSE "except"
    /\ UNCHANGED <<conf_once, stopped, llama_model, connect_info,
                   conn, connOpen, nsent, sent, njobs, pre>>
    /\ UNCHANGED est

\* run_one_stream forwarding the stream's first event again in place of
\* the event just emitted.
run_one_stream_repeat ==
    /\ pc = "stream"
    /\ \/ /\ llama_cli # None
          /\ job.frags < MaxFrags
          /\ LET n == job.frags + 1 IN
             IF connOpen
                THEN /\ Send(Msg(njobs, "fragment", 1))
                     /\ job' = [job EXCEPT !.backend = llama_cli, !.frags = n]
                     /\ pc' = "stream"
                ELSE /\ UNCHANGED <<sent, nsent>>
                     /\ job' = [job EXCEPT !.backend = llama_cli, !.frags = n, !.fail = "send"]
                     /\ pc' = "except"
       \/ /\ llama_cli # None
          /\ UNCHANGED <<sent, nsent>>
          /\ job' = [job EXCEPT !.backend = llama_cli]
          /\ pc' = "terminator"
       \/ /\ UNCHANGED <<sent, nsent>>
          /\ job' = [job EXCEPT !.backend = llama_cli, !.fail = "backend"]
          /\ pc' = "except"
    /\ UNCHANGED <<conf_once, stopped, llama, llama_model, llama_cli,
                   connect_info, conn, connOpen, njobs, last_load, pre>>
    /\ UNCHANGED est

\* lines 200-202: one turn of "async for event in sse.aiter_sse()": the
\* backend emits its next event and it is written to the socket, or the
\* stream ends, or the backend (or a missing client) raises.
run_one_stream ==
    /\ pc = "stream"
    /\ \/ /\ llama_cli # None
          /\ job.frags < MaxFrags
          /\ LET n == job.frags + 1 IN
             IF connOpen
                THEN /\ Send(Msg(njobs, "fragment", n))
                     /\ job' = [job EXCEPT !.backend = llama_cli, !.frags = n]
                     /\ pc' = "stream"
                ELSE /\ UNCHANGED <<sent, nsent>>
                     /\ job' = [job EXCEPT !.backend = llama_cli, !.frags = n, !.fail = "send"]
                     /\ pc' = "except"
       \/ /\ llama_cli # None
          /\ UNCHANGED <<sent, nsent>>
          /\ job' = [job EXCEPT !.backend = llama_cli]
          /\ pc' = "terminator"
       \/ /\ UNCHANGED <<sent, nsent>>
          /\ job' = [job EXCEPT !.backend = llama_cli, !.fail = "backend"]
          /\ pc' = "except"
    /\ UNCHANGED <<conf_once, stopped, llama, llama_model, llama_cli,
                   connect_info, conn, connOpen, njobs, last_load, pre>>
    /\ UNCHANGED est

\* run_one_terminator raising after the terminator was written.
run_one_terminator_then_raise ==
    /\ pc = "terminator"
    /\ IF connOpen
          THEN /\ Send(Msg(njobs, "terminator", 0))
               /\ job' = [job EXCEPT !.fail = "send"]
               /\ pc' = "except"
          ELSE /\ UNCHANGED <<sent, nsent>>
               /\ job' = [job EXCEPT !.fail = "send"]
               /\ pc' = "except"
    /\ UNCHANGED <<conf_once, stopped, llama, llama_model, llama_cli,
                   connect_info, conn, connOpen, njobs, last_load, pre>>
    /\ UNCHANGED est

\* run_one_terminator outside the try block: a failed write leaves run_one.
run_one_terminator_uncaught ==
    /\ pc = "terminator"
    /\ IF connOpen
          THEN /\ Send(Msg(njobs, "terminator", 0))
               /\ job' = [job EXCEPT !.status = "returned"]
               /\ pc' = AfterRunOne
          ELSE /\ UNCHANGED <<sent, nsent>>
               /\ job' = [job EXCEPT !.status = "raised"]
               /\ pc' = "connect"
    /\ UNCHANGED <<conf_once, stopped, llama, llama_model, llama_cli,
                   connect_info, conn, connOpen, njobs, last_load, pre>>
    /\ UNCHANGED est

\* line 203: await ws.send("")
run_one_terminator ==
    /\ pc = "terminator"
    /\ IF connOpen
          THEN /\ Send(Msg(njobs, "terminator", 0))
               /\ job' = [job EXCEPT !.status = "returned"]
               /\ pc' = AfterRunOne
          ELSE /\ UNCHANGED <<sent, nsent>>
               /\ job' = [job EXCEPT !.fail = "send"]
               /\ pc' = "except"
    /\ UNCHANGED <<conf_once, stopped, llama, llama_model, llama_cli,
                   connect_info, conn, connOpen, njobs, last_load, pre>>
    /\ UNCHANGED est

\* run_one_post raising after the body was written.
run_one_post_twice ==
    /\ pc = "post"
    /\ \E ok \in BOOLEAN :
        IF ok /\ llama_cli # None
           THEN IF connOpen
                   THEN /\ Send(Msg(njobs, "body", 0))
                        /\ job' = [job EXCEPT !.backend = llama_cli, !.fail = "backend"]
                        /\ pc' = "except"
                   ELSE /\ UNCHANGED <<sent, nsent>>
                        /\ job' = [job EXCEPT !.backend = llama_cli, !.fail = "send"]
                        /\ pc' = "except"
           ELSE /\ UNCHANGED <<sent, nsent>>
                /\ job' = [job EXCEPT !.backend = llama_cli, !.fail = "backend"]
                /\ pc' = "except"
    /\ UNCHANGED <<conf_once, stopped, llama, llama_model, llama_cli,
                   connect_info, conn, connOpen, njobs, last_load, pre>>
    /\ UNCHANGED est

\* lines 205-206: the non-streaming call and the write of its body.
run_one_post ==
    /\ pc = "post"
    /\ \E ok \in BOOLEAN :
        IF ok /\ llama_cli # None
           THEN IF connOpen
                   THEN /\ Send(Msg(njobs, "body", 0))
                        /\ job' = [job EXCEPT !.backend = llama_cli, !.status = "returned"]
                        /\ pc' = AfterRunOne
                   ELSE /\ UNCHANGED <<sent, nsent>>
                        /\ job' = [job EXCEPT !.backend = llama_cli, !.fail = "send"]
                        /\ pc' = "except"
           ELSE /\ UNCHANGED <<sent, nsent>>
                /\ job' = [job EXCEPT !.backend = llama_cli, !.fail = "backend"]
                /\ pc' = "except"
    /\ UNCHANGED <<conf_once, stopped, llama, llama_model, llama_cli,
                   connect_info, conn, connOpen, njobs, last_load, pre>>
    /\ UNCHANGED est

\* run_one_except swallowing the exception without writing the error object.
run_one_except_silent ==
    /\ pc = "except"
    /\ UNCHANGED <<sent, nsent>>
    /\ job' = [job EXCEPT !.status = "returned"]
    /\ pc' = AfterRunOne
    /\ UNCHANGED <<conf_once, stopped, llama, llama_model, llama_cli,
                   connect_info, conn, connOpen, njobs, last_load, pre>>
    /\ UNCHANGED est

\* lines 207-209: the handler writes the error object; if that write raises
\* ConnectionClosed the exception leaves run_one and run() reconnects.
run_one_except ==
    /\ pc = "except"
    /\ IF connOpen
          THEN /\ Send(Msg(njobs, "error", 0))
               /\ job' = [job EXCEPT !.status = "returned"]
               /\ pc' = AfterRunOne
          ELSE /\ UNCHANGED <<sent, nsent>>
               /\ job' = [job EXCEPT !.status = "raised"]
               /\ pc' = "connect"
    /\ UNCHANGED <<conf_once, stopped, llama, llama_model, llama_cli,
                   connect_info, conn, connOpen, njobs, last_load, pre>>
    /\ UNCHANGED est

\* ---------------------------------------------------------- specifications
Next ==
    \/ ConnectionLost
    \/ run_connect
    \/ run_ws_send_connect
    \/ run_ws_once
    \/ run_one_recv
    \/ run_one_validate
    \/ get_model
    \/ guess_layers
    \/ create_llama_app
    \/ run_one_stream
    \/ run_one_terminator
    \/ run_one_post
    \/ run_one_except

Spec == Init /\ [][Next]_vars

\* The same program with the stop flag also set from outside the task.
NextStop == Next \/ ExternalStop

SpecStop == Init /\ [][NextStop]_vars

\* ------------------------------------------ descriptor and estimator runs
\* One descriptor is built from each of two answers of the host, then the
\* layers of one model file are estimated against each descriptor.
InitEst ==
    /\ pc = "done"
    /\ conf_once = FALSE
    /\ stopped = FALSE
    /\ llama = None
    /\ llama_model = None
    /\ llama_cli = None
    /\ connect_info = <<>>
    /\ conn = 0
    /\ connOpen = FALSE
    /\ nsent = 0
    /\ sent = <<>>
    /\ njobs = 0
    /\ job = NoJob
    /\ last_load = [called |-> FALSE, name |-> None, ok |-> FALSE]
    /\ pre = <<None, None, None>>
    /\ \E force \in {0, 3}, file \in Files, q \in Queries, gpus2 \in GpuLists :
          est = EstInput(force, file, q, gpus2)

served == <<pc, conf_once, stopped, llama, llama_model, llama_cli,
            connect_info, conn, connOpen, nsent, sent, njobs, job,
            last_load, pre>>

est_connect_info ==
    /\ est.stage = "query"
    /\ est' = [est EXCEPT !.stage = "estimate",
                          !.info  = <<get_connect_info(est.q)>>,
                          !.info2 = <<get_connect_info(est.q2)>>]
    /\ UNCHANGED served

est_guess_layers ==
    /\ est.stage = "estimate"
    /\ est' = [est EXCEPT
                 !.stage = "done",
                 !.r  = <<guess_layers_of(est.force, est.file, est.info[1])>>,
                 !.r2 = <<guess_layers_of(est.force, est.file, est.info2[1])>>]
    /\ UNCHANGED served

NextEst == est_connect_info \/ est_guess_layers

SpecEst == InitEst /\ [][NextEst]_vars

\* ------------------------------------------------------- reading the log
RunOnePcs == {"recv", "parse", "get_model", "guess_layers", "create",
              "stream", "terminator", "post", "except"}
LoadPcs   == {"get_model", "guess_layers", "create"}

\* The messages of the current job, as <<kind, data>> pairs.
JobOut == SelectSeq(sent, LAMBDA m : m.job = njobs /\ m.job > 0)
Wire   == [n \in 1..Len(JobOut) |-> <<JobOut[n].kind, JobOut[n].data>>]

Frags(k) == [n \in 1..k |-> <<"fragment", n>>]
Body     == <<"body", 0>>
Term     == <<"terminator", 0>>
Err      == <<"error", 0>>

\* run_one has returned for the current job and its messages are in the log
\* (the log restarts when a connection is opened).
Returned == job.status = "returned" /\ job.conn = conn

\* The connection the current job arrived on has been closed.
JobConnClosed == job.conn < conn \/ ~connOpen

\* A step of the serving task that leaves run_one.
LeavesRunOne == pc \in RunOnePcs /\ pc' \notin RunOnePcs

\* --------------------------------------------------------------------- C1
\* C1: a load_model(X) call that follows a load_model(X) call which succeeded
\* never enters the load path (no get_model call, no backend construction).
C1_Idempotent ==
    pc \in LoadPcs
        => ~(last_load.called /\ last_load.ok /\ last_load.name = job.model)

\* --------------------------------------------------------------------- C2
\* C2 as stated: a job whose load failed or whose backend call raised, once
\* handled, has exactly one message on the wire, the error object.
C2_OnlyTheError ==
    (job.fail \in {"load", "backend"} /\ Returned)
        => Wire = <<Err>>

\* C2 as amended: for a job whose load failed or whose backend call raised,
\* the worker writes nothing but the fragments the backend had already emitted
\* (streaming jobs only) and then, if the connection is still open, exactly one
\* error object as the job's last message; run_one then returns and run_ws
\* goes on to its loop test on the same, still open connection.  If the
\* connection is closed the error object is not written.
C2_ShapeOfFailure ==
    job.fail \in {"load", "backend"} =>
        /\ job.frags > 0 => (job.stream /\ job.fail = "backend")
        /\ job.status = "running"  => (pc = "except" /\ Wire = Frags(job.frags))
        /\ Returned => Wire = Frags(job.frags) \o <<Err>>
        /\ job.status = "raised"   =>
              /\ JobConnClosed
              /\ \A n \in DOMAIN Wire : Wire[n][1] = "fragment"

C2_HandlerReturns ==
    (pc = "except" /\ job.fail \in {"load", "backend"} /\ connOpen /\ pc' # pc)
        => /\ pc' = AfterRunOne
           /\ job'.status = "returned"
           /\ conn' = conn
           /\ connOpen'

\* C2 (amended): the shape of a failed job's messages holds in every state
\* and the handler's step on an open connection returns to run_ws.
C2_ErrorContained == [](C2_ShapeOfFailure) /\ [][C2_HandlerReturns]_vars

\* A failed load was answered by one error object and the worker is waiting
\* for the next job on the same connection.
C2_Witness ==
    /\ job.fail = "load" /\ job.status = "returned"
    /\ Wire = <<Err>>
    /\ pc = "recv" /\ job.conn = conn /\ connOpen

\* --------------------------------------------------------------------- C3
\* C3 as stated: every streaming job, once handled, has on the wire its
\* fragments in emission order followed by exactly one terminator.
C3_AlwaysTerminated ==
    (job.valid /\ job.stream /\ Returned)
        => Wire = Frags(job.frags) \o <<Term>>

\* C3 as amended: a streaming job whose load and backend stream end without
\* failure, on a connection that stays open, puts on the wire the backend's
\* fragments in emission order followed by exactly one terminator; a streaming
\* job that fails puts the fragments emitted so far, in order, and no
\* terminator.  From a job's first message to its last the connection carries
\* no message of another job.
C3_Streaming ==
    (job.valid /\ job.stream) =>
        /\ (Returned /\ job.fail = "none")
              => Wire = Frags(job.frags) \o <<Term>>
        /\ (job.status # "returned" \/ job.fail # "none")
              => \A n \in DOMAIN Wire : Wire[n] # Term
        /\ \A n \in DOMAIN Wire :
              Wire[n][1] = "fragment" => (n <= job.frags /\ Wire[n] = <<"fragment", n>>)
        /\ pc \in RunOnePcs \ {"recv"} =>
              /\ \A n \in DOMAIN sent : sent[n].job = njobs
              /\ \A n \in 2..Len(sent) : sent[n].seq = sent[n-1].seq + 1

\* A stream of MaxFrags fragments was forwarded and terminated.
C3_Witness ==
    /\ job.stream /\ job.status = "returned" /\ job.fail = "none"
    /\ job.frags = MaxFrags
    /\ Wire = Frags(MaxFrags) \o <<Term>>

\* --------------------------------------------------------------------- C4
\* C4: on every connection the first message written is the capability
\* descriptor, it is written once, and no job is received on the connection
\* and no job message written on it before that.
C4_HandshakeFirst ==
    /\ \A n \in DOMAIN sent : (sent[n].kind = "connect") <=> (sent[n].seq = 1)
    /\ sent # <<>> => sent[Len(sent)].seq = nsent
    /\ pc \in (RunOnePcs \cup {"sleep"}) => nsent >= 1
    /\ (job.status # "none" /\ job.conn = conn) => nsent >= 1

\* The handshake is the one message written on a second connection, and the
\* worker is waiting for a job on it.
C4_Witness ==
    /\ conn = 2 /\ pc = "recv"
    /\ nsent = 1 /\ Len(sent) = 1 /\ sent[1].kind = "connect"

\* --------------------------------------------------------------------- C5
\* C5: when a closed connection is reported to the serving task (ws.recv or
\* ws.send raises) and the stop flag is not set, run() does not end: the task
\* stays in run_one's handler or goes back to connecting; and serving is only
\* ever entered by writing the handshake on a newly opened connection.
C5_Step ==
    /\ (pc \in RunOnePcs /\ ~connOpen /\ ~stopped)
          => pc' \in (RunOnePcs \cup {"connect"})
    /\ (pc \in {"recv", "except"} /\ ~connOpen /\ pc' # pc) => pc' = "connect"
    /\ (pc \notin (RunOnePcs \cup {"sleep"}) /\ pc' \in (RunOnePcs \cup {"sleep"}))
          => /\ pc = "hello" /\ pc' = "recv"
             /\ nsent = 0 /\ nsent' = 1
             /\ sent' = <<[seq |-> 1, job |-> 0, kind |-> "connect",
                           data |-> connect_info'[1]]>>

\* C5: every step of the worker satisfies C5_Step.
C5_Reconnect == [][C5_Step]_vars

\* A job was lost with its connection, and after two losses the worker is
\* waiting for jobs on the third connection, handshake written.
C5_Witness ==
    /\ conn = 3 /\ pc = "recv" /\ connOpen /\ ~stopped
    /\ job.status = "raised"
    /\ nsent = 1

\* --------------------------------------------------------------------- C6
\* C6 as stated: the messages of a handled job are a single body, or
\* fragments and the terminator, or a single error object.
C6_ThreeOutcomes ==
    Returned =>
        \/ Wire = <<Body>>
        \/ Wire = Frags(job.frags) \o <<Term>>
        \/ Wire = <<Err>>

\* C6 as amended: the messages of a handled job are a single body, or
\* fragments and the terminator, or a single error object, or - for a
\* streaming job whose backend stream fails after it emitted fragments - those
\* fragments followed by a single error object.  A body or a terminator is
\* never followed by anything; in particular never by an error object.
C6_OneOutcome ==
    /\ \A n \in 1..(Len(Wire) - 1) : Wire[n][1] = "fragment"
    /\ Returned =>
          \/ Wire = <<Body>> /\ ~job.stream /\ job.fail = "none"
          \/ Wire = Frags(job.frags) \o <<Term>> /\ job.stream /\ job.fail = "none"
          \/ Wire = <<Err>> /\ job.fail # "none"
          \/ /\ Wire = Frags(job.frags) \o <<Err>>
             /\ job.frags > 0 /\ job.stream /\ job.fail = "backend"

\* A backend stream failed after its first fragment: fragment, then error.
C6_Witness ==
    /\ job.status = "returned" /\ job.frags = 1
    /\ Wire = <<<<"fragment", 1>>, Err>>

\* --------------------------------------------------------------------- C7
\* C7: when load_model fails, llama, llama_model and llama_cli are what they
\* were when the call began.
C7_AtomicSwap ==
    (pc = "except" /\ job.fail = "load") => slot = pre

\* --------------------------------------------------------------------- C8
\* C8 as stated: no exception leaves run_one for any job.
C8_NeverRaises == job.status # "raised"

\* C8 as amended: every failure raised inside the try block - validation,
\* load, backend call, or the write of a fragment, a body or the terminator -
\* is caught; run_one is left either by returning after the job's last
\* message was written, or by ConnectionClosed alone, raised by ws.recv or by
\* the write of the error object on a closed connection.
C8_Leave ==
    LeavesRunOne =>
        \/ /\ pc \in {"terminator", "post", "except"}
           /\ connOpen
           /\ job'.status = "returned"
           /\ pc' = AfterRunOne
           /\ nsent' = nsent + 1
        \/ /\ pc \in {"recv", "except"}
           /\ ~connOpen
           /\ pc' = "connect"
           /\ job'.status = IF pc = "except" THEN "raised" ELSE job.status

\* C8 (amended): a job is marked raised only on a closed connection after a
\* caught failure, and every step that leaves run_one satisfies C8_Leave.
C8_OnlyConnectionClosedLeaves ==
    [](job.status = "raised" => (JobConnClosed /\ job.fail # "none"))
        /\ [][C8_Leave]_vars

\* The write of a fragment, body or terminator failed and was caught; the
\* write of the error object then failed too and left run_one.
C8_Witness ==
    job.status = "raised" /\ job.fail = "send" /\ pc = "connect"

\* --------------------------------------------------------------------- C9
\* C9: once the stop flag is set no connection is opened and no handshake is
\* written.
C9_Step ==
    stopped => /\ conn' = conn
               /\ ~(pc = "hello" /\ nsent' = nsent + 1)

\* C9: every step taken with the stop flag set satisfies C9_Step.
C9_StoppedIsTerminal == [][C9_Step]_vars

\* -------------------------------------------------------------------- C10
\* C10: in run-once mode the stop flag is set only after a run_one call has
\* returned, that is after the job's last message (body, terminator or error
\* object) was written; the loop then exits; and once that run_one call has
\* returned no further message is received and no connection is opened.
C10_State ==
    conf_once =>
        /\ stopped => pc = "done"
        /\ pc \in {"sleep", "done"} =>
              /\ job.status = "returned"
              /\ Wire # <<>>
              /\ Wire[Len(Wire)] \in {Body, Term, Err}
              /\ sent[Len(sent)].seq = nsent
        /\ job.status = "returned" => pc \in {"sleep", "done"}

C10_Step ==
    (conf_once /\ job.status = "returned")
        => /\ njobs' = njobs
           /\ conn' = conn
           /\ pc' \in {"sleep", "done"}
           /\ pc = "sleep" => (pc' = "done" /\ stopped') \/ (pc' = pc /\ ~stopped')

\* C10: C10_State holds in every state and every step satisfies C10_Step.
C10_RunOnce == [](C10_State) /\ [][C10_Step]_vars

\* Run-once: a first job was lost with its connection, the next one was
\* answered, and the loop has exited with the flag set.
C10_Witness ==
    /\ conf_once /\ stopped /\ pc = "done"
    /\ njobs = 2 /\ job.status = "returned"

\* ---------------------------------------------- reading an estimator run
EstDone    == est.stage = "done"
Reports(g) == \A i \in DOMAIN g : g[i] # Unset     \* every device has a memory
Gpus1      == est.info[1].nv_gpus
Gpus2      == est.info2[1].nv_gpus

\* -------------------------------------------------------------------- C11
\* C11: with no override, for one model file and two descriptors whose total
\* accelerator memory is m1 <= m2, the estimate for the first is at most the
\* estimate for the second, and every estimate is at most layer_count.
C11_Monotone ==
    (EstDone /\ est.force = 0
        /\ est.r[1].raised = "none" /\ est.r2[1].raised = "none")
    => /\ est.r[1].value  <= est.file.layers
       /\ est.r2[1].value <= est.file.layers
       /\ est.r[1].value  >= 0
       /\ SumMem(Gpus1) <= SumMem(Gpus2) => est.r[1].value <= est.r2[1].value

\* With more memory the same model goes from a partial offload to a full one.
C11_Witness ==
    /\ EstDone /\ est.force = 0
    /\ est.r[1].raised = "none" /\ est.r2[1].raised = "none"
    /\ SumMem(Gpus1) < SumMem(Gpus2)
    /\ 0 < est.r[1].value /\ est.r[1].value < est.file.layers
    /\ est.r2[1].value = est.file.layers

\* -------------------------------------------------------------------- C12
\* The estimate v is layer_count if the model fits in tot, and otherwise the
\* floor of tot / (est_ram / layer_count).
IsEstimate(v, tot) ==
    IF est.file.est_ram <= tot
       THEN v = est.file.layers
       ELSE /\ v * est.file.est_ram <= tot * est.file.layers
            /\ tot * est.file.layers < (v + 1) * est.file.est_ram

\* C12 as stated: with no override the estimator returns the estimate for
\* total_accelerator_memory = the sum of the descriptor's per-accelerator
\* memory fields, read as bytes.
C12_SumOfBytes ==
    (EstDone /\ est.force = 0 /\ est.file.wellformed /\ Reports(Gpus1))
    => /\ est.r[1].raised = "none"
       /\ IsEstimate(est.r[1].value, SumMem(Gpus1))

\* C12 as amended: with no override, for a well-formed file and a descriptor
\* whose accelerators all report their memory, the estimator returns the
\* estimate for total_accelerator_memory = 1000000 times the sum of the
\* descriptor's per-accelerator memory fields.
C12_Formula ==
    (EstDone /\ est.force = 0 /\ est.file.wellformed /\ Reports(Gpus1))
    => /\ est.r[1].raised = "none"
       /\ IsEstimate(est.r[1].value, MemUnit * SumMem(Gpus1))

\* 32 layers, 16 000 000 bytes for the whole model, one device of 4 (that is
\* 4 000 000 bytes): 8 layers.
C12_Witness ==
    /\ EstDone /\ est.force = 0
    /\ est.file = [wellformed |-> TRUE, layers |-> 32, est_ram |-> 16000000]
    /\ Gpus1 = <<4>>
    /\ est.r[1] = Result(8, "none", TRUE, TRUE)

\* -------------------------------------------------------------------- C13
\* C13: with force_layers = N > 0 the estimator returns N whatever the
\* descriptor and the model file are, opens no model file and does not call
\* connect_info().
C13_Override ==
    (EstDone /\ est.force > 0)
    => /\ est.r[1]  = Result(est.force, "none", FALSE, FALSE)
       /\ est.r2[1] = Result(est.force, "none", FALSE, FALSE)

\* The override was returned for a malformed file and a descriptor with a
\* device that reports no memory.
C13_Witness ==
    /\ EstDone /\ est.force = 3
    /\ ~est.file.wellformed
    /\ ~Reports(Gpus1)
    /\ est.r[1].value = 3

\* -------------------------------------------------------------------- C14
\* C14: if the nvidia query fails at any step, the descriptor is still built,
\* carries cpu_count and vram, and nv_gpu_count, nv_driver_version and nv_gpus
\* are all left empty.
C14_Degrades ==
    (est.stage \in {"estimate", "done"} /\ est.q.fail # "none")
    => /\ est.info # <<>>
       /\ est.info[1].cpu_count = 4 /\ est.info[1].vram = 16
       /\ est.info[1].nv_gpu_count = Unset
       /\ est.info[1].nv_driver_version = None
       /\ est.info[1].nv_gpus = <<>>

\* -------------------------------------------------------------------- C17
\* C17: with no override and a well-formed file, a descriptor that lists an
\* accelerator with no memory still gets a layer count, the one for the total
\* in which that accelerator counts as zero.
C17_UnsetIsZero ==
    (EstDone /\ est.force = 0 /\ est.file.wellformed /\ ~Reports(Gpus1))
    => /\ est.r[1].raised = "none"
       /\ IsEstimate(est.r[1].value,
                     MemUnit * SumMem(SelectSeq(Gpus1, LAMBDA m : m # Unset)))

\* -------------------------------------------------------------------- C15
\* Once the descriptor is cached it never changes; a handshake written at a
\* step carries the cached descriptor; an estimation that goes through reads
\* the cached descriptor.
C15_Step ==
    /\ connect_info # <<>> => connect_info' = connect_info
    /\ (pc = "hello" /\ nsent' = nsent + 1)
          => /\ connect_info' # <<>>
             /\ sent'[Len(sent')].kind = "connect"
             /\ sent'[Len(sent')].data = connect_info'[1]
    /\ (pc = "guess_layers" /\ pc' = "create") => connect_info' # <<>>

\* C15: the descriptor is not built at startup but on first use, it is built
\* at most once, and over all connections, reconnects and estimations every
\* handshake and every estimation uses the value computed first.
C15_Memoized ==
    [](conn = 0 => connect_info = <<>>) /\ [][C15_Step]_vars

\* After an estimation on the first connection, the handshake of the second
\* connection carried the cached descriptor.
C15_Witness ==
    /\ conn = 2 /\ job.conn = 1 /\ job.built
    /\ pc = "recv"
    /\ Len(sent) = 1 /\ sent[1].kind = "connect"
    /\ sent[1].data = connect_info[1]

\* -------------------------------------------------------------------- C16
\* C16: load_model returns without loading only when the requested name is
\* the name of the model that is resident; a request with no model name never
\* skips the load path.
C16_NoModelNeverMatches ==
    (job.valid /\ job.status = "running" /\ pc \in {"stream", "post"}
        /\ ~job.acquired)
    => /\ job.model # None
       /\ llama_cli = job.model

\* -------------------------------------------------------------------- C18
\* C18: a job's payload is dispatched only to a backend that was constructed
\* for the model the payload names, jobs without a model name included.
C18_BackendOfTheJob ==
    job.backend # None => job.backend = job.model

\* -------------------------------------------------------------------- C19
\* While a message that failed validation is handled: no acquisition, no
\* backend construction or call, the slot as it was, nothing written before
\* the handler, and once run_one has returned exactly one error object.
C19_State ==
    (njobs > 0 /\ ~job.valid) =>
        /\ ~job.acquired /\ ~job.built
        /\ job.backend = None /\ job.frags = 0
        /\ pc # "parse" => slot = pre
        /\ job.status = "running" => (pc \in {"parse", "except"} /\ Wire = <<>>)
        /\ Returned => Wire = <<Err>>
        /\ job.status = "raised" => JobConnClosed

\* The handler's step for such a message, on an open connection, returns to
\* run_ws on the same connection.
C19_Step ==
    (~job.valid /\ pc = "except" /\ connOpen /\ pc' # pc)
        => /\ pc' = AfterRunOne
           /\ job'.status = "returned"
           /\ conn' = conn /\ connOpen'

\* C19: a message that cannot be parsed as a Req is answered with exactly one
\* error object, causes no acquisition and no backend call, leaves the model
\* slot unchanged, and the worker goes on to the next message on the same
\* connection.
C19_Unparsable == [](C19_State) /\ [][C19_Step]_vars

\* With a model resident, an unparsable second message was answered by one
\* error object and the worker waits for the next message on that connection.
C19_Witness ==
    /\ njobs >= 2 /\ ~job.valid /\ Returned
    /\ llama_cli # None /\ slot = pre
    /\ Wire = <<Err>>
    /\ pc = "recv" /\ connOpen

\* -------------------------------------------------------------------- C20
Count(w, m) == Cardinality({n \in DOMAIN w : w[n] = m})

\* C20: for every job at most one terminator and at most one error object are
\* written, never both; a job whose backend stream failed after k fragments
\* has on the wire those k fragments in order, then one error object, and no
\* terminator.
C20_TerminatorOrError ==
    /\ Count(Wire, Term) + Count(Wire, Err) <= 1
    /\ (job.stream /\ job.fail = "backend" /\ Returned)
          => Wire = Frags(job.frags) \o <<Err>>

\* The backend stream failed before its first fragment: the error object alone.
C20_Witness ==
    /\ job.stream /\ job.fail = "backend" /\ Returned
    /\ job.backend # None /\ job.frags = 0
    /\ Wire = <<Err>>

====
